---- MODULE Spec2Model ----
(***************************************************************************)
(* Concurrent loan-file store of the mortgage underwriting system: the     *)
(* per-loan locks of LoanFileManager, the tool operations that load,       *)
(* mutate and save a loan file around an external-system call, and the     *)
(* task graph / batch executors / drivers built on top of them.            *)
(*                                                                         *)
(* Granularity.  LoanFileManager is declared thread-safe and guards its    *)
(* lock table with a threading.Lock, so callers may run on any thread of   *)
(* control.  A step of a task is therefore one of: taking a lock, loading  *)
(* the file, performing the external call, mutating-and-saving (with the   *)
(* release that ends the block).                                           *)
(***************************************************************************)
EXTENDS Integers, Sequences, FiniteSets, TLC

(***************************************************************************)
(* Bounds                                                                  *)
(***************************************************************************)
MaxTasks == 3

(***************************************************************************)
(* Program constants                                                       *)
(***************************************************************************)
MAX_AUDIT_ENTRIES == 100

max_retries == 2

(***************************************************************************)
(* Loan numbers.  LN_A has an active file, LN_B has none.                  *)
(***************************************************************************)
LN_A == "LN-A"

LN_B == "LN-B"

Loans == {LN_A, LN_B}

NoFile == [missing |-> TRUE]

\* the batch of test_assertion_15 without order_appraisal (the scenario of
\* four concurrent tasks on a new loan)
ScenarioBatch ==
  <<"verify_loan_documents", "order_credit_report",
    "order_flood_certification", "verify_employment">>

\* the calls of an arbitrary workload
Callers == 1..MaxTasks

\* call slots: enough for the arbitrary workload and for the scenario batch
Tasks ==
  1..(IF MaxTasks > Len(ScenarioBatch) THEN MaxTasks ELSE Len(ScenarioBatch))

NoTask == 0

(***************************************************************************)
(* The store instances.  tools_loan_processor builds its own               *)
(* LoanFileManager(); tools_underwriter imports the singleton of           *)
(* file_manager.py.  Both use the default base directory, so they read     *)
(* and write the same files, but each instance has its own lock table and  *)
(* its own write counters.                                                 *)
(***************************************************************************)
LP_MANAGER == "tools_loan_processor.file_manager"

UW_MANAGER == "file_manager.file_manager"

Managers == {LP_MANAGER, UW_MANAGER}

LoanProcessorOps ==
  {"verify_loan_documents", "order_credit_report", "order_appraisal",
   "order_flood_certification", "verify_employment",
   "calculate_loan_ratios", "submit_to_underwriting"}

UnderwriterOps ==
  {"run_automated_underwriting", "review_assets_reserves",
   "issue_final_approval"}

Ops == LoanProcessorOps \cup UnderwriterOps

\* the module-level name file_manager each tool function resolves at call time
file_manager(o) ==
  IF o \in LoanProcessorOps \cup {"clear_underwriting_conditions"}
  THEN LP_MANAGER ELSE UW_MANAGER

(***************************************************************************)
(* Exceptions of external_systems.py                                       *)
(***************************************************************************)
SystemTimeoutException == "SystemTimeoutException"

SystemMaintenanceException == "SystemMaintenanceException"

InsufficientCreditHistoryException == "InsufficientCreditHistoryException"

ExternalSystemException ==
  {SystemTimeoutException, SystemMaintenanceException,
   InsufficientCreditHistoryException}

AttributeError == "AttributeError"

TypeError == "TypeError"

UnboundLocalError == "UnboundLocalError"

\* a simulator returns a response ("ok", with the flags the tool derives from
\* it) or raises
Response(outcome, flags) == [outcome |-> outcome, flags |-> flags]

NoResponse == Response("none", << >>)

\* pull_credit_report: three random failures, else a report; the tool flags a
\* score below 620, many inquiries or derogatory items
CreditBureauSimulator_pull_credit_report ==
  {Response(SystemTimeoutException, << >>),
   Response(SystemMaintenanceException, << >>),
   Response(InsufficientCreditHistoryException, << >>),
   Response("ok", << >>),
   Response("ok", <<"Credit score below 620 - may require LOE">>)}

\* run_automated_underwriting(loan_file_copy): a random timeout; unless the
\* DTI ratio is above 45 it evaluates occupancy_type.value on a stored
\* (string) value, which raises AttributeError
AutomatedUnderwritingSimulator_run_automated_underwriting(lf) ==
  {Response(SystemTimeoutException, << >>), Response(AttributeError, << >>)}
  \cup (IF lf.dti_ratio THEN {Response("ok", << >>)} ELSE {})

\* check_flood_zone: a random timeout, else a zone with or without insurance
FloodCertificationSimulator_check_flood_zone ==
  {Response(SystemTimeoutException, << >>),
   Response("ok", << >>),
   Response("ok", <<"Flood insurance required">>)}

\* order_appraisal: never raises
AppraisalManagementSimulator_order_appraisal == {Response("ok", << >>)}

\* verify_employment: never raises; the income variance stays within 5%, so
\* it never warns
EmploymentVerificationSimulator_verify_employment == {Response("ok", << >>)}

Simulator(o, lf) ==
  CASE o = "order_credit_report" -> CreditBureauSimulator_pull_credit_report
    [] o = "run_automated_underwriting" ->
         AutomatedUnderwritingSimulator_run_automated_underwriting(lf)
    [] o = "order_flood_certification" ->
         FloodCertificationSimulator_check_flood_zone
    [] o = "order_appraisal" -> AppraisalManagementSimulator_order_appraisal
    [] o = "verify_employment" ->
         EmploymentVerificationSimulator_verify_employment
    [] OTHER -> {}

(***************************************************************************)
(* Shapes of the exported tool functions (the last definition of a name).  *)
(***************************************************************************)
\* lock -> load -> unlock -> external call -> lock -> reload -> save
TwoPhaseOps ==
  {"order_credit_report", "verify_employment", "run_automated_underwriting"}

\* one block: lock -> load -> external call -> save -> unlock
LockHeldCallOps == {"order_appraisal", "order_flood_certification"}

ExternalOps == TwoPhaseOps \cup LockHeldCallOps

\* one block: lock -> load -> mutate -> save -> unlock
SingleBlockOps == Ops \ ExternalOps

(***************************************************************************)
(* LoanFile (models.py)                                                    *)
(***************************************************************************)
APPLICATION_RECEIVED == "application_received"

DOCUMENTS_COLLECTING == "documents_collecting"

DOCUMENTS_COMPLETE == "documents_complete"

CREDIT_ORDERED == "credit_ordered"

APPRAISAL_ORDERED == "appraisal_ordered"

SUBMITTED_TO_UNDERWRITING == "submitted_to_underwriting"

UNDERWRITING_INITIAL_REVIEW == "underwriting_initial_review"

CLEAR_TO_CLOSE == "clear_to_close"

\* the file written by scenarios.create_scenario_*: no documents, no audit
NewLoanFile ==
  [status |-> APPLICATION_RECEIVED,
   documents |-> << >>,
   flags |-> << >>,
   audit_trail |-> << >>,
   underwriting_decisions |-> << >>,
   current_conditions |-> << >>,
   credit_report |-> FALSE,
   appraisal |-> "none",
   flood_zone |-> "none",
   employment_verified |-> FALSE,
   ltv_ratio |-> FALSE,
   dti_ratio |-> FALSE]

(***************************************************************************)
(* State                                                                   *)
(***************************************************************************)
VARIABLES
  file,          \* active tier: loan number -> stored LoanFile or NoFile
  locks,         \* manager -> loan number -> task holding the lock, or NoTask
  lock_table,    \* manager -> loan numbers that have a lock object (_locks)
  write_counts,  \* manager -> loan number -> number of saves (_write_counts)
  op,            \* task -> tool function it runs ("none" while not started)
  loan,          \* task -> loan_number argument
  pc,            \* task -> position in the tool function
  loan_file,     \* task -> the local variable loan_file
  response,      \* task -> outcome of the external call
  attempt,       \* task -> loop variable of order_credit_report's first loop
  result,        \* task -> how the call ended
  added,         \* history: task -> the writes its save put into the file
  during_call,   \* history: task -> sibling writes saved during its call
  missed         \* history: task -> during_call writes absent after its save

toolVars ==
  <<file, locks, lock_table, write_counts, op, loan, pc, loan_file, response,
    attempt, result, added, during_call, missed>>

\* datetime.now(): a clock that never goes back; it advances with every
\* save_loan_file of the process
now ==
  LET saves(m) == write_counts[m][LN_A] + write_counts[m][LN_B]
  IN  saves(LP_MANAGER) + saves(UW_MANAGER)

\* an add_audit_entry that puts the new entry in front of the trail
add_audit_entry_in_front(lf, by, action, status_before, status_after) ==
  [lf EXCEPT !.audit_trail =
     <<[timestamp |-> now, by |-> by, action |-> action,
        status_before |-> status_before,
        status_after |-> status_after]>> \o @]

\* LoanFile.add_audit_entry; `by` identifies the call that appended the entry
add_audit_entry(lf, by, action, status_before, status_after) ==
  [lf EXCEPT !.audit_trail =
     Append(@, [timestamp |-> now, by |-> by, action |-> action,
                status_before |-> status_before,
                status_after |-> status_after])]

\* LoanFile.update_status
update_status(lf, by, new_status) ==
  add_audit_entry([lf EXCEPT !.status = new_status], by, "status_change",
                  lf.status, new_status)

\* Document(document_id=f"DOC-{uuid4}", ...): the id is fresh for each call
Document(by, n, type, status) ==
  [document_id |-> <<by, n>>, document_type |-> type, status |-> status]

UnderwritingDecision(by, type) ==
  [decision_id |-> <<by, 1>>, decision_type |-> type]

DocsOfType(lf, type) ==
  SelectSeq(lf.documents, LAMBDA d : d.document_type = type)


\* a write that can be told apart in a stored record: who appended what
WritesOf(lf) ==
  IF lf = NoFile THEN {}
  ELSE {[kind |-> "document", by |-> lf.documents[i].document_id[1],
         what |-> lf.documents[i].document_type] :
           i \in DOMAIN lf.documents}
       \cup {[kind |-> "audit", by |-> lf.audit_trail[i].by,
              what |-> lf.audit_trail[i].action] :
                i \in DOMAIN lf.audit_trail}
       \cup {[kind |-> "decision", by |-> lf.underwriting_decisions[i].decision_id[1],
              what |-> lf.underwriting_decisions[i].decision_type] :
                i \in DOMAIN lf.underwriting_decisions}

\* TaskCoordinator.get_concurrent_tasks and its caller
VARIABLES
  all_tasks,        \* the task graph: the items of a dict name -> Task
  completed_tasks,  \* the names recorded as completed
  available,        \* the list returned by the last get_concurrent_tasks
  called            \* whether `available` is the answer for completed_tasks

graphVars == <<all_tasks, completed_tasks, available, called>>

\* the batch executors
VARIABLES
  executor,       \* which executor was called ("none" before the call)
  batch,          \* the tasks handed to it
  coro,           \* position in the batch -> state of that task's coroutine
  starts,         \* position in the batch -> how often the task was started
  batch_state,    \* "idle", "awaiting", "returned" or "raised"
  batch_results   \* what the executor returned

batchVars == <<executor, batch, coro, starts, batch_state, batch_results>>

\* the drivers
VARIABLES
  driver,       \* which driver runs
  phase,        \* the phase it is in
  agent_pc,     \* agent of the phase -> number of tools it has called
  tool_status   \* tool -> "not_started", "running", "ok" or "failed"

driverVars == <<driver, phase, agent_pc, tool_status>>

\* the files of one loan and one save_loan_file call, step by step
VARIABLES
  active,        \* active/<loan>.json: absent, complete or partially written
  archive,       \* archive/<loan>_audit_archive.json.gz: the archived entries
  backups,       \* backups/: timestamp in the file name -> contents copied
  mem,           \* the LoanFile object in memory (its audit trail)
  save_pc,       \* "idle", "loaded", "rotated", "backed_up" or "writing"
  second,        \* the clock, in seconds
  next_entry,    \* ordinal of the next audit entry to be appended
  appends,       \* history: number of audit entries appended
  persisted,     \* history: entries that were ever in a complete active file
  backups_made   \* history: number of times _create_backup copied the file

storeVars ==
  <<active, archive, backups, mem, save_pc, second, next_entry, appends,
    persisted, backups_made>>

\* LoanFileManager._get_lock called from several threads
VARIABLES
  _locks,         \* self._locks: loan number -> lock object, or NoLock
  _lock_manager,  \* self._lock_manager: the thread inside `with`, or NoThread
  get_pc,         \* thread -> position in _get_lock
  get_loan,       \* thread -> loan_number argument
  got,            \* thread -> loan number -> the lock object last returned
  next_lock,      \* the next asyncio.Lock() object
  handed,         \* history: loan number -> the lock objects ever returned
  raced           \* history: loans first asked for by two threads at once

tableVars ==
  <<_locks, _lock_manager, get_pc, get_loan, got, next_lock, handed, raced>>

\* the list argument of a call on the conditions of a loan
VARIABLES
  descriptions    \* task -> `conditions` / `cleared_conditions` argument

condVars == <<descriptions>>

vars == <<toolVars, graphVars, batchVars, driverVars, storeVars, tableVars, condVars>>

CondIdle == descriptions = [t \in Tasks |-> << >>]

MaxThreads == 2

MaxLocksMade == 3

Threads == 1..MaxThreads

NoThread == 0

NoLock == 0

TableIdle ==
  /\ _locks = [l \in Loans |-> NoLock]
  /\ _lock_manager = NoThread
  /\ get_pc = [c \in Threads |-> "idle"]
  /\ get_loan = [c \in Threads |-> LN_A]
  /\ got = [c \in Threads |-> [l \in Loans |-> NoLock]]
  /\ next_lock = 1
  /\ handed = [l \in Loans |-> {}]
  /\ raced = {}


StoreIdle ==
  /\ active = [state |-> "absent", audit_trail |-> << >>]
  /\ archive = << >>
  /\ backups = << >>
  /\ mem = [audit_trail |-> << >>]
  /\ save_pc = "idle"
  /\ second = 0
  /\ next_entry = 1
  /\ appends = 0
  /\ persisted = {}
  /\ backups_made = 0

ToolsIdle ==
  /\ file = [l \in Loans |-> NoFile]
  /\ locks = [m \in Managers |-> [l \in Loans |-> NoTask]]
  /\ lock_table = [m \in Managers |-> {}]
  /\ write_counts = [m \in Managers |-> [l \in Loans |-> 0]]
  /\ op = [t \in Tasks |-> "none"]
  /\ loan = [t \in Tasks |-> LN_A]
  /\ pc = [t \in Tasks |-> "idle"]
  /\ loan_file = [t \in Tasks |-> NoFile]
  /\ response = [t \in Tasks |-> NoResponse]
  /\ attempt = [t \in Tasks |-> 1]
  /\ result = [t \in Tasks |-> "none"]
  /\ added = [t \in Tasks |-> {}]
  /\ during_call = [t \in Tasks |-> {}]
  /\ missed = [t \in Tasks |-> {}]

GraphIdle ==
  /\ all_tasks = << >>
  /\ completed_tasks = {}
  /\ available = << >>
  /\ called = FALSE

BatchIdle ==
  /\ executor = "none"
  /\ batch = << >>
  /\ coro = << >>
  /\ starts = << >>
  /\ batch_state = "idle"
  /\ batch_results = << >>

DriverIdle ==
  /\ driver = "none"
  /\ phase = 0
  /\ agent_pc = << >>
  /\ tool_status = << >>

(***************************************************************************)
(* LoanFileManager (file_manager.py)                                       *)
(***************************************************************************)
\* a rotation that keeps the oldest entries instead of the newest
_rotate_audit_trail_keep_oldest(lf) ==
  IF Len(lf.audit_trail) > MAX_AUDIT_ENTRIES
  THEN [lf EXCEPT !.audit_trail = SubSeq(@, 1, MAX_AUDIT_ENTRIES)]
  ELSE lf

\* _rotate_audit_trail: keep the newest MAX_AUDIT_ENTRIES entries
_rotate_audit_trail(lf) ==
  IF Len(lf.audit_trail) > MAX_AUDIT_ENTRIES
  THEN [lf EXCEPT !.audit_trail =
          SubSeq(@, Len(@) - MAX_AUDIT_ENTRIES + 1, Len(@))]
  ELSE lf

\* load_loan_file: the active file, or None
load_loan_file(l) == file[l]

\* _get_lock: the lock object of the loan in this manager's table
_get_lock(m, l) == [lock_table EXCEPT ![m] = @ \cup {l}]

\* a context manager that lets go of the lock only when the block completes
acquire_loan_lock_exit_completed_only(m, l, how) ==
  IF how = "normal" THEN [locks EXCEPT ![m][l] = NoTask] ELSE locks

\* leaving the block of acquire_loan_lock: `async with lock` releases on
\* every way out ("normal", "return", "exception")
acquire_loan_lock_exit(m, l, how) == [locks EXCEPT ![m][l] = NoTask]

Others(t) == Tasks \ {t}

InCall(t) == pc[t] = "call" /\ op[t] \in TwoPhaseOps

\* save_loan_file called by task t with record lf
save_loan_file(t, lf) ==
  LET m == file_manager(op[t])
      l == loan[t]
      stored == _rotate_audit_trail(lf)
      new == WritesOf(stored) \ WritesOf(file[l])
  IN /\ file' = [file EXCEPT ![l] = stored]
     /\ write_counts' = [write_counts EXCEPT ![m][l] = @ + 1]
     /\ added' = [added EXCEPT ![t] = @ \cup {w \in WritesOf(stored) : w.by = t}]
     /\ during_call' =
          [u \in Tasks |->
             IF u = t THEN {}
             ELSE IF InCall(u) /\ loan[u] = l THEN during_call[u] \cup new
             ELSE during_call[u]]
     /\ missed' = [missed EXCEPT ![t] = during_call[t] \ WritesOf(stored)]

NoSave == UNCHANGED <<file, write_counts, added, during_call, missed>>


(***************************************************************************)
(* The blocks of the tool functions.  A block ends "normal" (falls off the *)
(* end of the `async with`), by "return" or by "exception"; `save` tells   *)
(* whether it called save_loan_file with `lf`.                             *)
(***************************************************************************)
Outcome(how, res, lf, save) ==
  [how |-> how, result |-> res, lf |-> lf, save |-> save]

HasUnreadableStatus(lf, types) ==
  \E i \in DOMAIN types :
    /\ DocsOfType(lf, types[i]) # << >>
    /\ DocsOfType(lf, types[i])[1].status \notin {"approved", "received"}

IsMissing(lf, type) == DocsOfType(lf, type) = << >>

RECURSIVE AppendMissing(_, _, _, _)
AppendMissing(lf, types, i, t) ==
  IF i > Len(types) THEN lf
  ELSE AppendMissing(
         IF IsMissing(lf, types[i])
         THEN [lf EXCEPT !.documents =
                 Append(@, Document(t, i, types[i], "required"))]
         ELSE lf,
         types, i + 1, t)

verify_required_docs ==
  <<"urla", "paystub", "w2", "bank_statement", "purchase_agreement">>

\* verify_loan_documents: a document of each required type is looked up; a
\* missing one is added as REQUIRED; one that is neither approved nor
\* received makes doc.status.value raise (the stored status is a string)
verify_loan_documents(lf, t) ==
  IF HasUnreadableStatus(lf, verify_required_docs)
  THEN Outcome("exception", AttributeError, lf, FALSE)
  ELSE LET missing_docs ==
             \E i \in DOMAIN verify_required_docs :
               IsMissing(lf, verify_required_docs[i])
           withDocs == AppendMissing(lf, verify_required_docs, 1, t)
       IN Outcome("normal", "ok",
                  update_status(withDocs, t,
                                IF missing_docs THEN DOCUMENTS_COLLECTING
                                ELSE DOCUMENTS_COMPLETE),
                  TRUE)

\* order_credit_report, phase 3
order_credit_report(lf, t, resp) ==
  Outcome("normal", "ok",
          update_status(
            [lf EXCEPT !.credit_report = TRUE,
                       !.flags = @ \o resp.flags,
                       !.documents =
                          Append(@, Document(t, 1, "credit_report", "approved"))],
            t, CREDIT_ORDERED),
          TRUE)

\* order_credit_report, the three except blocks
order_credit_report_except(lf, t, exc) ==
  add_audit_entry(
    IF exc = InsufficientCreditHistoryException
    THEN [lf EXCEPT !.flags =
            Append(@, "Insufficient credit history - alternative docs needed")]
    ELSE lf,
    t, "credit_order_failed", "None", "None")

\* order_appraisal (last definition): the try body after the simulator call
order_appraisal(lf, t, resp) ==
  Outcome("normal", "ok",
          update_status(
            [lf EXCEPT !.appraisal = "ordered",
                       !.documents =
                          Append(@, Document(t, 1, "appraisal", "requested"))],
            t, APPRAISAL_ORDERED),
          TRUE)

\* order_flood_certification (last definition): the try body after the call,
\* or the except block, which only reports
order_flood_certification(lf, t, resp) ==
  IF resp.outcome = SystemTimeoutException
  THEN Outcome("normal", "failed", lf, FALSE)
  ELSE Outcome("normal", "ok",
               add_audit_entry(
                 [lf EXCEPT !.flood_zone = "set",
                            !.flags = @ \o resp.flags,
                            !.documents =
                               Append(@, Document(t, 1, "flood_certification",
                                                  "approved"))],
                 t, "flood_cert_ordered", "None", "None"),
               TRUE)

\* verify_employment, phase 3
verify_employment(lf, t, resp) ==
  Outcome("normal", "ok",
          add_audit_entry(
            [lf EXCEPT !.employment_verified = TRUE,
                       !.flags = @ \o resp.flags,
                       !.documents =
                          Append(@, Document(t, 1, "employment_verification",
                                             "approved"))],
            t, "employment_verified", "None", "None"),
          TRUE)

\* calculate_loan_ratios: LTV from the purchase price, DTI only with a credit
\* report; the audit entry formats both with :.2f, which raises on None
calculate_loan_ratios(lf, t) ==
  LET m == [lf EXCEPT !.ltv_ratio = TRUE,
                      !.dti_ratio = @ \/ lf.credit_report]
  IN IF ~m.dti_ratio
     THEN Outcome("exception", TypeError, lf, FALSE)
     ELSE Outcome("normal", "ok",
                  add_audit_entry(m, t, "financial_calculations", "None", "None"),
                  TRUE)

submit_required_doc_types ==
  <<"urla", "paystub", "w2", "bank_statement", "credit_report">>

\* submit_to_underwriting (last definition)
submit_to_underwriting(lf, t) ==
  LET unapproved ==
        \E i \in DOMAIN submit_required_doc_types :
          /\ ~IsMissing(lf, submit_required_doc_types[i])
          /\ DocsOfType(lf, submit_required_doc_types[i])[1].status # "approved"
      validation_errors ==
        \/ \E i \in DOMAIN submit_required_doc_types :
             IsMissing(lf, submit_required_doc_types[i])
        \/ ~lf.ltv_ratio
        \/ ~lf.dti_ratio
        \/ ~lf.credit_report
  IN IF unapproved THEN Outcome("exception", AttributeError, lf, FALSE)
     ELSE IF validation_errors THEN Outcome("return", "blocked", lf, FALSE)
     ELSE Outcome("normal", "ok",
                  update_status(lf, t, SUBMITTED_TO_UNDERWRITING), TRUE)

\* run_automated_underwriting, phase 3
run_automated_underwriting(lf, t, resp) ==
  Outcome("normal", "ok",
          add_audit_entry(
            update_status(
              [lf EXCEPT !.underwriting_decisions =
                 Append(@, UnderwritingDecision(t, "automated_findings"))],
              t, UNDERWRITING_INITIAL_REVIEW),
            t, "automated_underwriting", "None", "None"),
          TRUE)

\* run_automated_underwriting, both except blocks
run_automated_underwriting_except(lf, t, exc) ==
  add_audit_entry(lf, t, "automated_underwriting_failed", "None", "None")

\* review_assets_reserves: the scenarios' borrower has assets; with a
\* housing payment it evaluates occupancy_type.value on a string, without one
\* reserves_months is read before assignment
review_assets_reserves(lf, t) ==
  IF lf.dti_ratio
  THEN Outcome("exception", AttributeError, lf, FALSE)
  ELSE Outcome("exception", UnboundLocalError, lf, FALSE)

\* an issue_final_approval that does not look at the conditions
issue_final_approval_unguarded(lf, t) ==
  Outcome("normal", "ok",
          update_status(
            [lf EXCEPT !.underwriting_decisions =
               Append(@, UnderwritingDecision(t, "approve"))],
            t, CLEAR_TO_CLOSE),
          TRUE)

\* issue_final_approval
issue_final_approval(lf, t) ==
  LET pending_conditions ==
        SelectSeq(lf.current_conditions, LAMBDA c : c.status # "cleared")
  IN IF pending_conditions # << >>
     THEN Outcome("return", "refused", lf, FALSE)
     ELSE Outcome("normal", "ok",
                  update_status(
                    [lf EXCEPT !.underwriting_decisions =
                       Append(@, UnderwritingDecision(t, "approve"))],
                    t, CLEAR_TO_CLOSE),
                  TRUE)

\* the block that holds the tool's save
FinalBlock(o, lf, t, resp) ==
  CASE o = "verify_loan_documents" -> verify_loan_documents(lf, t)
    [] o = "order_credit_report" -> order_credit_report(lf, t, resp)
    [] o = "order_appraisal" -> order_appraisal(lf, t, resp)
    [] o = "order_flood_certification" -> order_flood_certification(lf, t, resp)
    [] o = "verify_employment" -> verify_employment(lf, t, resp)
    [] o = "calculate_loan_ratios" -> calculate_loan_ratios(lf, t)
    [] o = "submit_to_underwriting" -> submit_to_underwriting(lf, t)
    [] o = "run_automated_underwriting" -> run_automated_underwriting(lf, t, resp)
    [] o = "review_assets_reserves" -> review_assets_reserves(lf, t)
    [] o = "issue_final_approval" -> issue_final_approval(lf, t)

\* the exceptions of the external call a two-phase tool catches with an
\* except block that opens its own acquire_loan_lock block
CaughtWithBlock(o) ==
  CASE o = "order_credit_report" -> ExternalSystemException
    [] o = "run_automated_underwriting" ->
         ExternalSystemException \cup {AttributeError}
    [] OTHER -> {}

\* ... and those it catches and only reports
CaughtReportOnly(o) ==
  CASE o = "verify_employment" -> {SystemTimeoutException}
    [] OTHER -> {}

ExceptBlock(o, lf, t, exc) ==
  CASE o = "order_credit_report" -> order_credit_report_except(lf, t, exc)
    [] o = "run_automated_underwriting" ->
         run_automated_underwriting_except(lf, t, exc)

(***************************************************************************)
(* The tool calls as processes                                             *)
(***************************************************************************)
\* a file on which order_credit_report and calculate_loan_ratios have
\* completed in an earlier session (their writes carry the id NoTask)
PreparedLoanFile ==
  calculate_loan_ratios(
    order_credit_report(NewLoanFile, NoTask, Response("ok", << >>)).lf,
    NoTask).lf

InitialFiles == {NewLoanFile, PreparedLoanFile}

Init ==
  /\ write_counts = [m \in Managers |-> [l \in Loans |-> 0]]
  /\ file \in {[l \in Loans |-> IF l = LN_A THEN f ELSE NoFile] :
                 f \in InitialFiles}
  /\ locks = [m \in Managers |-> [l \in Loans |-> NoTask]]
  /\ lock_table = [m \in Managers |-> {}]
  /\ op = [t \in Tasks |-> "none"]
  /\ loan = [t \in Tasks |-> LN_A]
  /\ pc = [t \in Tasks |-> "idle"]
  /\ loan_file = [t \in Tasks |-> NoFile]
  /\ response = [t \in Tasks |-> NoResponse]
  /\ attempt = [t \in Tasks |-> 1]
  /\ result = [t \in Tasks |-> "none"]
  /\ added = [t \in Tasks |-> {}]
  /\ during_call = [t \in Tasks |-> {}]
  /\ missed = [t \in Tasks |-> {}]
  /\ GraphIdle /\ BatchIdle /\ DriverIdle /\ StoreIdle /\ TableIdle /\ CondIdle

Done(t) == pc[t] \in {"returned", "raised"}

\* the call ends: its locals go away
Finish(t, how, res) ==
  /\ pc' = [pc EXCEPT ![t] = IF how = "exception" THEN "raised" ELSE "returned"]
  /\ result' = [result EXCEPT ![t] = res]
  /\ loan_file' = [loan_file EXCEPT ![t] = NoFile]
  /\ response' = [response EXCEPT ![t] = NoResponse]

\* Task identifiers are interchangeable names of calls.  To keep one
\* representative of each renaming, the calls in progress are numbered in the
\* order of (tool, loan); a call may still start at any time.
OpSeq ==
  <<"verify_loan_documents", "order_credit_report", "order_appraisal",
    "order_flood_certification", "verify_employment", "calculate_loan_ratios",
    "submit_to_underwriting", "run_automated_underwriting",
    "review_assets_reserves", "issue_final_approval">>

CallRank(o, l) ==
  2 * (CHOOSE i \in DOMAIN OpSeq : OpSeq[i] = o) + (IF l = LN_A THEN 0 ELSE 1)

\* a caller invokes tool function o on loan l
Start(t, o, l) ==
  /\ pc[t] = "idle"
  /\ \A u \in Tasks \ {t} :
       pc[u] # "idle" => (u < t <=> CallRank(op[u], loan[u]) <= CallRank(o, l))
  /\ op' = [op EXCEPT ![t] = o]
  /\ loan' = [loan EXCEPT ![t] = l]
  /\ pc' = [pc EXCEPT ![t] = "acquire1"]
  /\ UNCHANGED <<file, locks, lock_table, write_counts, loan_file, response,
                 attempt, result, added, during_call, missed>>

BlockOf(p) ==
  CASE p = "acquire1" -> "block1"
    [] p = "acquire3" -> "block3"
    [] p = "acquireH" -> "blockH"

\* async with file_manager.acquire_loan_lock(loan_number): entry, and the
\* load_loan_file that opens every block
acquire_loan_lock(t) ==
  LET m == file_manager(op[t])
      l == loan[t]
  IN /\ pc[t] \in {"acquire1", "acquire3", "acquireH"}
     /\ lock_table' = _get_lock(m, l)
     /\ locks[m][l] = NoTask
     /\ locks' = [locks EXCEPT ![m][l] = t]
     /\ loan_file' = [loan_file EXCEPT ![t] = load_loan_file(l)]
     /\ pc' = [pc EXCEPT ![t] = BlockOf(pc[t])]
     /\ UNCHANGED <<file, write_counts, op, loan, response, attempt, result,
                    added, during_call, missed>>

\* the rest of the first block of a tool with an external call
Block1(t) ==
  LET m == file_manager(op[t])
      l == loan[t]
  IN /\ pc[t] = "block1"
     /\ op[t] \in ExternalOps
     /\ NoSave
     /\ UNCHANGED <<lock_table, write_counts, op, loan>>
     /\ IF loan_file[t] = NoFile
        THEN /\ locks' = acquire_loan_lock_exit(m, l, "return")
             /\ Finish(t, "return", "not_found")
             /\ UNCHANGED attempt
        ELSE IF op[t] \in LockHeldCallOps
        THEN /\ pc' = [pc EXCEPT ![t] = "call"]
             /\ UNCHANGED <<locks, loan_file, response, attempt, result>>
        ELSE IF op[t] = "order_credit_report" /\ attempt[t] < max_retries
        THEN /\ locks' = acquire_loan_lock_exit(m, l, "normal")
             /\ attempt' = [attempt EXCEPT ![t] = @ + 1]
             /\ pc' = [pc EXCEPT ![t] = "acquire1"]
             /\ UNCHANGED <<loan_file, response, result>>
        ELSE /\ locks' = acquire_loan_lock_exit(m, l, "normal")
             /\ pc' = [pc EXCEPT ![t] = "call"]
             /\ UNCHANGED <<loan_file, response, attempt, result>>

\* the call of the external system's simulator
ExternalCall(t) ==
  /\ pc[t] = "call"
  /\ \E r \in Simulator(op[t], loan_file[t]) :
       /\ IF op[t] \in LockHeldCallOps
             \/ r.outcome = "ok"
          THEN /\ response' = [response EXCEPT ![t] = r]
               /\ pc' = [pc EXCEPT ![t] =
                           IF op[t] \in LockHeldCallOps THEN "block3"
                           ELSE "acquire3"]
               /\ UNCHANGED <<loan_file, result>>
          ELSE IF r.outcome \in CaughtWithBlock(op[t])
          THEN /\ response' = [response EXCEPT ![t] = r]
               /\ pc' = [pc EXCEPT ![t] = "acquireH"]
               /\ UNCHANGED <<loan_file, result>>
          ELSE IF r.outcome \in CaughtReportOnly(op[t])
          THEN Finish(t, "return", "failed")
          ELSE Finish(t, "exception", r.outcome)
  /\ UNCHANGED <<file, locks, lock_table, write_counts, op, loan, attempt,
                 added, during_call, missed>>

\* the block that mutates and saves, to the end of the `async with`
Block3(t) ==
  LET m == file_manager(op[t])
      l == loan[t]
      out == FinalBlock(op[t], loan_file[t], t, response[t])
  IN /\ \/ pc[t] = "block3"
        \/ pc[t] = "block1" /\ op[t] \in SingleBlockOps
     /\ UNCHANGED <<lock_table, op, loan, attempt>>
     /\ IF loan_file[t] = NoFile
        THEN /\ locks' = acquire_loan_lock_exit(m, l, "return")
             /\ NoSave
             /\ Finish(t, "return", "not_found")
        ELSE /\ locks' = acquire_loan_lock_exit(m, l, out.how)
             /\ IF out.save THEN save_loan_file(t, out.lf) ELSE NoSave
             /\ Finish(t, out.how, out.result)

\* the block of an except clause that records the failure
BlockH(t) ==
  LET m == file_manager(op[t])
      l == loan[t]
  IN /\ pc[t] = "blockH"
     /\ UNCHANGED <<lock_table, op, loan, attempt>>
     /\ locks' = acquire_loan_lock_exit(m, l, "normal")
     /\ IF loan_file[t] = NoFile
        THEN NoSave
        ELSE save_loan_file(t, ExceptBlock(op[t], loan_file[t], t,
                                           response[t].outcome))
     /\ Finish(t, "return", "failed")

Next ==
  \/ \E t \in Callers, o \in Ops, l \in Loans :
       Start(t, o, l) /\ UNCHANGED <<graphVars, batchVars, driverVars, storeVars, tableVars, condVars>>
  \/ \E t \in Tasks :
       acquire_loan_lock(t) /\ UNCHANGED <<graphVars, batchVars, driverVars, storeVars, tableVars, condVars>>
  \/ \E t \in Tasks :
       Block1(t) /\ UNCHANGED <<graphVars, batchVars, driverVars, storeVars, tableVars, condVars>>
  \/ \E t \in Tasks :
       ExternalCall(t) /\ UNCHANGED <<graphVars, batchVars, driverVars, storeVars, tableVars, condVars>>
  \/ \E t \in Tasks :
       Block3(t) /\ UNCHANGED <<graphVars, batchVars, driverVars, storeVars, tableVars, condVars>>
  \/ \E t \in Tasks :
       BlockH(t) /\ UNCHANGED <<graphVars, batchVars, driverVars, storeVars, tableVars, condVars>>

Spec == Init /\ [][Next]_vars

(***************************************************************************)
(* Properties of the store and the tools                                   *)
(***************************************************************************)
Quiescent == \A t \in Tasks : pc[t] = "idle" \/ Done(t)

InBlock(t) ==
  \/ pc[t] \in {"block1", "block3", "blockH"}
  \/ pc[t] = "call" /\ op[t] \in LockHeldCallOps

HoldsLock(t) == locks[file_manager(op[t])][loan[t]] = t

FailureActions ==
  {"credit_order_failed", "appraisal_order_failed",
   "automated_underwriting_failed"}

C2_MutualExclusion ==
  \A t, u \in Tasks :
    (t # u /\ InBlock(t) /\ InBlock(u)) => loan[t] # loan[u]

C4_NoLockDuringCall ==
  \A t \in Tasks : pc[t] = "call" => ~HoldsLock(t)

\* C5: a task holds a lock only while it is inside a guarded block; however
\* the block was left, the lock is free again, so once every operation has
\* finished no lock is held.
C5_LockReleasedOnExit ==
  /\ \A m \in Managers, l \in Loans :
       locks[m][l] # NoTask =>
         /\ InBlock(locks[m][l])
         /\ file_manager(op[locks[m][l]]) = m
         /\ loan[locks[m][l]] = l
  /\ Quiescent => \A m \in Managers, l \in Loans : locks[m][l] = NoTask

\* C5 witness: one call raised inside its block, one returned early from its
\* block, and a later call has acquired the same lock.
C5_Witness ==
  \E t, u, v \in Tasks :
    /\ pc[t] = "raised" /\ op[t] = "calculate_loan_ratios"
    /\ result[u] = "blocked" /\ op[u] = "submit_to_underwriting"
    /\ pc[v] = "block1" /\ HoldsLock(v)
    /\ loan[t] = LN_A /\ loan[u] = LN_A /\ loan[v] = LN_A
    /\ file_manager(op[v]) = LP_MANAGER

\* C8: an operation whose external call failed does not raise that error; it
\* returns a failure summary and has saved a failure audit entry.
C8_ExternalFailureRecorded ==
  \A t \in Tasks :
    /\ pc[t] = "raised" => result[t] \notin ExternalSystemException
    /\ result[t] = "failed" =>
         \E w \in added[t] : w.kind = "audit" /\ w.what \in FailureActions

(***************************************************************************)
(* Task dependency graph (task_coordinator.py)                             *)
(***************************************************************************)
MaxGraphTasks == 4

MaxDeps == 1

\* @dataclass Task; tool_function and estimated_duration play no part here
Task(name, dependencies, concurrent_safe) ==
  [name |-> name, dependencies |-> dependencies,
   concurrent_safe |-> concurrent_safe]

\* an item of a task dict
Item(task) == [key |-> task.name, task |-> task]

LOAN_PROCESSOR_TASKS ==
  <<Item(Task("order_credit_report", {}, TRUE)),
    Item(Task("order_appraisal", {}, TRUE)),
    Item(Task("order_flood_certification", {}, TRUE)),
    Item(Task("verify_employment", {}, TRUE)),
    Item(Task("calculate_loan_ratios", {"order_credit_report"}, FALSE)),
    Item(Task("submit_to_underwriting",
              {"calculate_loan_ratios", "verify_loan_documents"}, FALSE))>>

UNDERWRITER_TASKS ==
  <<Item(Task("run_automated_underwriting", {}, FALSE)),
    Item(Task("review_credit_profile", {"run_automated_underwriting"}, TRUE)),
    Item(Task("review_income_employment", {"run_automated_underwriting"}, TRUE)),
    Item(Task("review_assets_reserves", {"run_automated_underwriting"}, TRUE)),
    Item(Task("review_property_appraisal", {"run_automated_underwriting"}, TRUE)),
    Item(Task("issue_underwriting_conditions",
              {"review_credit_profile", "review_income_employment",
               "review_assets_reserves", "review_property_appraisal"}, FALSE))>>

\* a lookup that forgets what has been completed
get_concurrent_tasks_no_skip(completed, graph) ==
  LET ready(item) ==
        /\ \A dep \in item.task.dependencies : dep \in completed
        /\ item.task.concurrent_safe
      picked == SelectSeq(graph, ready)
  IN [i \in DOMAIN picked |-> picked[i].task]

\* TaskCoordinator.get_concurrent_tasks(completed_tasks, all_tasks)
get_concurrent_tasks(completed, graph) ==
  LET ready(item) ==
        /\ item.key \notin completed
        /\ \A dep \in item.task.dependencies : dep \in completed
        /\ item.task.concurrent_safe
      picked == SelectSeq(graph, ready)
  IN [i \in DOMAIN picked |-> picked[i].task]

GraphNames == {ToString(i) : i \in 1..MaxGraphTasks}

DepSets == {d \in SUBSET GraphNames : Cardinality(d) <= MaxDeps}

\* generated graphs: n tasks keyed by their names, any dependencies (met,
\* unmet, cyclic, or naming no task of the graph), any concurrent_safe; the
\* two graphs of TaskCoordinator supply the tasks with several dependencies
GeneratedGraphs ==
  UNION {{tasks \in [1..n -> {Task(nm, deps, safe) :
                               nm \in GraphNames, deps \in DepSets,
                               safe \in BOOLEAN}] :
            \A i \in 1..n : tasks[i].name = ToString(i)} :
           n \in 0..MaxGraphTasks}

NamesIn(graph) ==
  {graph[i].key : i \in DOMAIN graph}
  \cup UNION {graph[i].task.dependencies : i \in DOMAIN graph}

GraphInit ==
  /\ \/ \E tasks \in GeneratedGraphs :
          all_tasks = [i \in DOMAIN tasks |-> Item(tasks[i])]
     \/ all_tasks \in {LOAN_PROCESSOR_TASKS, UNDERWRITER_TASKS}
  /\ completed_tasks \in SUBSET NamesIn(all_tasks)
  /\ available = << >>
  /\ called = FALSE
  /\ ToolsIdle /\ BatchIdle /\ DriverIdle /\ StoreIdle /\ TableIdle /\ CondIdle

\* a caller asks which tasks can run now
GetConcurrentTasks ==
  /\ ~called
  /\ available' = get_concurrent_tasks(completed_tasks, all_tasks)
  /\ called' = TRUE
  /\ UNCHANGED <<all_tasks, completed_tasks>>

\* ... and records one of them as completed
RecordCompleted ==
  /\ called
  /\ \E i \in DOMAIN available :
       completed_tasks' = completed_tasks \cup {available[i].name}
  /\ available' = << >>
  /\ called' = FALSE
  /\ UNCHANGED all_tasks

GraphNext ==
  \/ GetConcurrentTasks /\ UNCHANGED <<toolVars, batchVars, driverVars, storeVars, tableVars, condVars>>
  \/ RecordCompleted /\ UNCHANGED <<toolVars, batchVars, driverVars, storeVars, tableVars, condVars>>

GraphSpec == GraphInit /\ [][GraphNext]_vars

TasksOf(graph) == {graph[i].task : i \in DOMAIN graph}

Returned == {available[i] : i \in DOMAIN available}

\* C6: get_concurrent_tasks returns exactly the tasks whose name is not in
\* completed, whose dependencies are all in completed and which are
\* concurrent_safe: none else, none omitted, none twice.
C6_DependencyGatingExact ==
  called =>
    /\ Returned =
         {t \in TasksOf(all_tasks) :
            /\ t.name \notin completed_tasks
            /\ t.dependencies \subseteq completed_tasks
            /\ t.concurrent_safe}
    /\ Cardinality(Returned) = Len(available)

\* C6 witness: an answer that lists some task and leaves out a completed
\* one, one with an unmet dependency and one that is not concurrent_safe.
C6_Witness ==
  /\ called
  /\ available # << >>
  /\ \E t \in TasksOf(all_tasks) :
       /\ t.name \in completed_tasks
       /\ t.dependencies \subseteq completed_tasks
       /\ t.concurrent_safe
  /\ \E t \in TasksOf(all_tasks) :
       /\ t.name \notin completed_tasks
       /\ ~(t.dependencies \subseteq completed_tasks)
       /\ t.concurrent_safe
  /\ \E t \in TasksOf(all_tasks) :
       /\ t.name \notin completed_tasks
       /\ t.dependencies \subseteq completed_tasks
       /\ ~t.concurrent_safe

(***************************************************************************)
(* Batch executors                                                         *)
(***************************************************************************)
MaxBatch == 3

EXECUTE_CONCURRENT_TASKS == "TaskCoordinator.execute_concurrent_tasks"

ORCHESTRATOR_EXECUTE == "OrchestratorAgent._execute_concurrent_tasks"

Executors == {EXECUTE_CONCURRENT_TASKS, ORCHESTRATOR_EXECUTE}

\* asyncio.gather(..., return_exceptions=True) only for the TaskCoordinator
return_exceptions(e) == e = EXECUTE_CONCURRENT_TASKS

BatchTaskNames ==
  <<"order_credit_report", "order_appraisal", "order_flood_certification">>

BatchInit ==
  /\ BatchIdle
  /\ ToolsIdle /\ GraphIdle /\ DriverIdle /\ StoreIdle /\ TableIdle /\ CondIdle

\* the executor is called with n tasks: it creates one coroutine per task and
\* awaits asyncio.gather of them
CallExecutor(e, n) ==
  /\ batch_state = "idle"
  /\ executor' = e
  /\ batch' = SubSeq(BatchTaskNames, 1, n)
  /\ coro' = [i \in 1..n |-> "scheduled"]
  /\ starts' = [i \in 1..n |-> 0]
  /\ batch_state' = "awaiting"
  /\ UNCHANGED batch_results

\* the event loop starts a scheduled coroutine
RunCoroutine(i) ==
  /\ coro[i] = "scheduled"
  /\ coro' = [coro EXCEPT ![i] = "running"]
  /\ starts' = [starts EXCEPT ![i] = @ + 1]
  /\ UNCHANGED <<executor, batch, batch_state, batch_results>>

\* the task's operation returns a string
CoroutineReturns(i) ==
  /\ coro[i] = "running"
  /\ coro' = [coro EXCEPT ![i] = "returned"]
  /\ UNCHANGED <<executor, batch, starts, batch_state, batch_results>>

\* the task's operation raises
CoroutineRaises(i) ==
  /\ coro[i] = "running"
  /\ coro' = [coro EXCEPT ![i] = "raised"]
  /\ UNCHANGED <<executor, batch, starts, batch_state, batch_results>>

\* gather has all results: the executor returns them (a dict by task name
\* from the TaskCoordinator, a list from the orchestrator)
GatherReturns ==
  /\ batch_state = "awaiting"
  /\ \A i \in DOMAIN coro : coro[i] \in {"returned", "raised"}
  /\ return_exceptions(executor) \/ \A i \in DOMAIN coro : coro[i] = "returned"
  /\ batch_state' = "returned"
  /\ batch_results' = [i \in DOMAIN coro |-> [name |-> batch[i], outcome |-> coro[i]]]
  /\ UNCHANGED <<executor, batch, coro, starts>>

\* without return_exceptions gather hands the first exception to its awaiter
\* at once; the other coroutines are not cancelled and keep running
GatherRaises ==
  /\ batch_state = "awaiting"
  /\ ~return_exceptions(executor)
  /\ \E i \in DOMAIN coro : coro[i] = "raised"
  /\ batch_state' = "raised"
  /\ UNCHANGED <<executor, batch, coro, starts, batch_results>>

BatchNext ==
  \/ \E e \in Executors, n \in 1..MaxBatch :
       CallExecutor(e, n) /\ UNCHANGED <<toolVars, graphVars, driverVars, storeVars, tableVars, condVars>>
  \/ \E i \in DOMAIN coro :
       RunCoroutine(i) /\ UNCHANGED <<toolVars, graphVars, driverVars, storeVars, tableVars, condVars>>
  \/ \E i \in DOMAIN coro :
       CoroutineReturns(i) /\ UNCHANGED <<toolVars, graphVars, driverVars, storeVars, tableVars, condVars>>
  \/ \E i \in DOMAIN coro :
       CoroutineRaises(i) /\ UNCHANGED <<toolVars, graphVars, driverVars, storeVars, tableVars, condVars>>
  \/ GatherReturns /\ UNCHANGED <<toolVars, graphVars, driverVars, storeVars, tableVars, condVars>>
  \/ GatherRaises /\ UNCHANGED <<toolVars, graphVars, driverVars, storeVars, tableVars, condVars>>

BatchSpec == BatchInit /\ [][BatchNext]_vars

\* C7: a batch executor never fails because a task's operation raised: it
\* starts every task once and, when it is over, has returned one outcome per
\* task, a raising task's error being that task's outcome.
C7_BatchFailureIsolation ==
  /\ batch_state # "raised"
  /\ \A i \in DOMAIN starts : starts[i] <= 1
  /\ batch_state = "returned" =>
       /\ DOMAIN batch_results = DOMAIN batch
       /\ \A i \in DOMAIN batch :
            /\ starts[i] = 1
            /\ batch_results[i] = [name |-> batch[i], outcome |-> coro[i]]

(***************************************************************************)
(* Drivers: process_loan_concurrent and OrchestratorAgent.on_messages      *)
(***************************************************************************)
PROCESS_LOAN_CONCURRENT == "process_loan_concurrent"

ON_MESSAGES == "OrchestratorAgent.on_messages"

Drivers == {PROCESS_LOAN_CONCURRENT, ON_MESSAGES}

\* The agents a phase hands to asyncio.gather, each with the tools its task
\* description names, in that order.  Phase 0 (the five mortgage brokers)
\* queries lenders and runs no task on the loan file.
Phase1Agents ==
  <<<<"verify_loan_documents">>,
    <<"order_credit_report">>,
    <<"order_appraisal">>,
    <<"order_flood_certification">>,
    <<"verify_employment">>,
    <<"calculate_loan_ratios", "submit_to_underwriting">>>>

Phase2Agents ==
  <<<<"run_automated_underwriting">>,
    <<"review_credit_profile">>,
    <<"review_income_employment">>,
    <<"review_assets_reserves">>,
    <<"review_property_appraisal">>>>

Phase3Agents == <<<<"issue_final_approval">>>>

LastPhase == 4

AgentsOf(p) ==
  CASE p = 1 -> Phase1Agents
    [] p = 2 -> Phase2Agents
    [] p = 3 -> Phase3Agents
    [] OTHER -> << >>

DriverTools ==
  UNION {{AgentsOf(p)[a][k] : k \in DOMAIN AgentsOf(p)[a]} :
           <<p, a>> \in {<<q, b>> \in (1..3) \X (1..6) : b \in DOMAIN AgentsOf(q)}}

DriverInit ==
  /\ driver \in Drivers
  /\ phase = 0
  /\ agent_pc = << >>
  /\ tool_status = [x \in DriverTools |-> "not_started"]
  /\ ToolsIdle /\ GraphIdle /\ BatchIdle /\ StoreIdle /\ TableIdle /\ CondIdle

\* the current phase's gather has got every agent's answer; the driver moves
\* to the next phase and hands its agents to asyncio.gather
NextPhase ==
  /\ phase < LastPhase
  /\ \A a \in DOMAIN agent_pc : agent_pc[a] > Len(AgentsOf(phase)[a])
  /\ phase' = phase + 1
  /\ agent_pc' = [a \in DOMAIN AgentsOf(phase + 1) |-> 1]
  /\ UNCHANGED <<driver, tool_status>>

CurrentTool(a) == AgentsOf(phase)[a][agent_pc[a]]

\* an agent calls its next tool
AgentCallsTool(a) ==
  /\ agent_pc[a] <= Len(AgentsOf(phase)[a])
  /\ tool_status[CurrentTool(a)] = "not_started"
  /\ tool_status' = [tool_status EXCEPT ![CurrentTool(a)] = "running"]
  /\ UNCHANGED <<driver, phase, agent_pc>>

\* the tool succeeds: the agent goes on with its task
ToolSucceeds(a) ==
  /\ agent_pc[a] <= Len(AgentsOf(phase)[a])
  /\ tool_status[CurrentTool(a)] = "running"
  /\ tool_status' = [tool_status EXCEPT ![CurrentTool(a)] = "ok"]
  /\ agent_pc' = [agent_pc EXCEPT ![a] = @ + 1]
  /\ UNCHANGED <<driver, phase>>

\* the tool reports a failure: the agent answers with it
ToolFails(a) ==
  /\ agent_pc[a] <= Len(AgentsOf(phase)[a])
  /\ tool_status[CurrentTool(a)] = "running"
  /\ tool_status' = [tool_status EXCEPT ![CurrentTool(a)] = "failed"]
  /\ agent_pc' = [agent_pc EXCEPT ![a] = Len(AgentsOf(phase)[a]) + 1]
  /\ UNCHANGED <<driver, phase>>

DriverNext ==
  \/ NextPhase /\ UNCHANGED <<toolVars, graphVars, batchVars, storeVars, tableVars, condVars>>
  \/ \E a \in DOMAIN agent_pc :
       AgentCallsTool(a) /\ UNCHANGED <<toolVars, graphVars, batchVars, storeVars, tableVars, condVars>>
  \/ \E a \in DOMAIN agent_pc :
       ToolSucceeds(a) /\ UNCHANGED <<toolVars, graphVars, batchVars, storeVars, tableVars, condVars>>
  \/ \E a \in DOMAIN agent_pc :
       ToolFails(a) /\ UNCHANGED <<toolVars, graphVars, batchVars, storeVars, tableVars, condVars>>

DriverSpec == DriverInit /\ [][DriverNext]_vars

DeclaredTasks == TasksOf(LOAN_PROCESSOR_TASKS) \cup TasksOf(UNDERWRITER_TASKS)

Running(x) == x \in DOMAIN tool_status /\ tool_status[x] = "running"

Succeeded(x) == x \in DOMAIN tool_status /\ tool_status[x] = "ok"

\* C9: in every driver a task runs only after every task it declares as a
\* dependency has completed successfully.
C9_DependencyOrdering ==
  \A t \in DeclaredTasks :
    Running(t.name) => \A dep \in t.dependencies : Succeeded(dep)

\* C10: a task that is not concurrent_safe never runs at the same time as
\* another task on the loan.
C10_UnsafeTasksIsolated ==
  \A t \in DeclaredTasks :
    (Running(t.name) /\ ~t.concurrent_safe) =>
      \A x \in DOMAIN tool_status : Running(x) => x = t.name

(***************************************************************************)
(* Further properties of the task graph                                    *)
(***************************************************************************)
ReturnedNames == {available[i].name : i \in DOMAIN available}

\* C11: with the loan-processor graph, calculate_loan_ratios is not ready
\* while order_credit_report is not completed, and is ready once it is (and
\* calculate_loan_ratios itself is not yet completed).
C11_RatiosReadyAfterCredit ==
  (called /\ all_tasks = LOAN_PROCESSOR_TASKS
     /\ "calculate_loan_ratios" \notin completed_tasks) =>
    ("calculate_loan_ratios" \in ReturnedNames
       <=> "order_credit_report" \in completed_tasks)

(***************************************************************************)
(* The scenario of test_assertion_15: one concurrent batch on a new loan   *)
(***************************************************************************)
ScenarioInit ==
  /\ Init
  /\ file[LN_A] = NewLoanFile

\* asyncio.gather starts the calls of the batch
ScenarioStart(t) == Start(t, ScenarioBatch[t], LN_A)

ScenarioNext ==
  \/ \E t \in DOMAIN ScenarioBatch :
       ScenarioStart(t) /\ UNCHANGED <<graphVars, batchVars, driverVars, storeVars, tableVars, condVars>>
  \/ \E t \in Tasks :
       acquire_loan_lock(t) /\ UNCHANGED <<graphVars, batchVars, driverVars, storeVars, tableVars, condVars>>
  \/ \E t \in Tasks :
       Block1(t) /\ UNCHANGED <<graphVars, batchVars, driverVars, storeVars, tableVars, condVars>>
  \/ \E t \in Tasks :
       ExternalCall(t) /\ UNCHANGED <<graphVars, batchVars, driverVars, storeVars, tableVars, condVars>>
  \/ \E t \in Tasks :
       Block3(t) /\ UNCHANGED <<graphVars, batchVars, driverVars, storeVars, tableVars, condVars>>
  \/ \E t \in Tasks :
       BlockH(t) /\ UNCHANGED <<graphVars, batchVars, driverVars, storeVars, tableVars, condVars>>

ScenarioSpec == ScenarioInit /\ [][ScenarioNext]_vars

\* LoanStatus in workflow order, from documents_complete on
DocumentsCompleteOrLater ==
  {DOCUMENTS_COMPLETE, "initial_review_complete", CREDIT_ORDERED,
   APPRAISAL_ORDERED, SUBMITTED_TO_UNDERWRITING, "underwriting_received",
   UNDERWRITING_INITIAL_REVIEW, "underwriting_suspended",
   "conditions_pending", "conditions_submitted", "conditions_review",
   "approved", CLEAR_TO_CLOSE}

BatchSucceeded ==
  \A t \in DOMAIN ScenarioBatch : op[t] = ScenarioBatch[t] /\ result[t] = "ok"

\* C12: after the four tasks of the batch have all succeeded on a new loan,
\* the stored status is documents_complete or later and the record holds one
\* document per task, with pairwise distinct identifiers.
C12_ScenarioOutcome ==
  BatchSucceeded =>
    LET docs == file[LN_A].documents
    IN /\ file[LN_A].status \in DocumentsCompleteOrLater
       /\ Len(docs) = Len(ScenarioBatch)
       /\ \A t \in DOMAIN ScenarioBatch :
            Cardinality({i \in DOMAIN docs : docs[i].document_id[1] = t}) = 1
       /\ \A i, j \in DOMAIN docs :
            docs[i].document_id = docs[j].document_id => i = j

(***************************************************************************)
(* save_loan_file step by step on the files of one loan                    *)
(*                                                                         *)
(* Audit entries are named by their ordinal in append order.  The clock    *)
(* stays far below the hour after which save_loan_file purges backups.     *)
(***************************************************************************)
MaxAppends == 3

MaxSeconds == 2

MaxSaves == 3

\* _rotate_audit_trail: old_entries, the part that goes to the archive
old_entries(lf) ==
  IF Len(lf.audit_trail) > MAX_AUDIT_ENTRIES
  THEN SubSeq(lf.audit_trail, 1, Len(lf.audit_trail) - MAX_AUDIT_ENTRIES)
  ELSE << >>

Entries(first, n) == [i \in 1..n |-> first + i - 1]

Range(seq) == {seq[i] : i \in DOMAIN seq}

\* Files a sequence of complete saves leaves behind: no file yet; a trail
\* that has not overflowed; or a full trail with the overflow in the archive.
StoreInit ==
  /\ \E n \in {0} \cup ((MAX_AUDIT_ENTRIES - MaxAppends)..MAX_AUDIT_ENTRIES),
        a \in 0..MaxAppends :
       /\ a > 0 => n = MAX_AUDIT_ENTRIES
       /\ archive = Entries(1, a)
       /\ active = IF n = 0 THEN [state |-> "absent", audit_trail |-> << >>]
                   ELSE [state |-> "complete", audit_trail |-> Entries(a + 1, n)]
       /\ next_entry = a + n + 1
       /\ persisted = 1..(a + n)
  /\ backups = << >>
  /\ mem = [audit_trail |-> << >>]
  /\ save_pc = "idle"
  /\ second = 0
  /\ appends = 0
  /\ backups_made = 0
  /\ ToolsIdle /\ GraphIdle /\ BatchIdle /\ DriverIdle /\ TableIdle /\ CondIdle

\* the clock advances
Tick ==
  /\ second < MaxSeconds
  /\ second' = second + 1
  /\ UNCHANGED <<active, archive, backups, mem, save_pc, next_entry, appends,
                 persisted, backups_made>>

\* scenarios.create_scenario_*: a new LoanFile object, not yet saved
CreateLoanFile ==
  /\ save_pc = "idle"
  /\ active.state = "absent"
  /\ mem' = [audit_trail |-> << >>]
  /\ save_pc' = "loaded"
  /\ UNCHANGED <<active, archive, backups, second, next_entry, appends,
                 persisted, backups_made>>

\* load_loan_file of a readable file (json.load raises on a partial one)
LoadLoanFile ==
  /\ save_pc = "idle"
  /\ active.state = "complete"
  /\ mem' = [audit_trail |-> active.audit_trail]
  /\ save_pc' = "loaded"
  /\ UNCHANGED <<active, archive, backups, second, next_entry, appends,
                 persisted, backups_made>>

\* LoanFile.add_audit_entry on the object in memory
AppendAuditEntry ==
  /\ save_pc = "loaded"
  /\ appends < MaxAppends
  /\ mem' = [mem EXCEPT !.audit_trail = Append(@, next_entry)]
  /\ next_entry' = next_entry + 1
  /\ appends' = appends + 1
  /\ UNCHANGED <<active, archive, backups, save_pc, second, persisted,
                 backups_made>>

\* save_loan_file, line 129: _rotate_audit_trail cuts the trail in memory and
\* rewrites the archive as its old contents followed by the entries cut off
SaveRotate ==
  /\ save_pc = "loaded"
  /\ backups_made < MaxSaves
  /\ mem' = _rotate_audit_trail(mem)
  /\ archive' = archive \o old_entries(mem)
  /\ save_pc' = "rotated"
  /\ UNCHANGED <<active, backups, second, next_entry, appends, persisted,
                 backups_made>>

\* save_loan_file, lines 131-132: _create_backup copies the active file, if
\* there is one, to <loan>_backup_<YYYYMMDD_HHMMSS>.json.gz
SaveBackup ==
  /\ save_pc = "rotated"
  /\ save_pc' = "backed_up"
  /\ IF active.state = "absent"
     THEN UNCHANGED <<backups, backups_made>>
     ELSE /\ backups' =
               [t \in DOMAIN backups \cup {second} |->
                  IF t = second THEN active ELSE backups[t]]
          /\ backups_made' = backups_made + 1
  /\ UNCHANGED <<active, archive, mem, second, next_entry, appends, persisted>>

\* save_loan_file, line 136: open(file_path, 'w') creates or truncates
SaveOpen ==
  /\ save_pc = "backed_up"
  /\ active' = [state |-> "partial", audit_trail |-> << >>]
  /\ save_pc' = "writing"
  /\ UNCHANGED <<archive, backups, mem, second, next_entry, appends,
                 persisted, backups_made>>

\* save_loan_file, lines 137-153: json.dump writes the record, the file is
\* closed and the call returns
SaveDump ==
  /\ save_pc = "writing"
  /\ active' = [state |-> "complete", audit_trail |-> mem.audit_trail]
  /\ persisted' = persisted \cup Range(mem.audit_trail)
  /\ save_pc' = "idle"
  /\ mem' = [audit_trail |-> << >>]
  /\ UNCHANGED <<archive, backups, second, next_entry, appends,
                 backups_made>>

\* the save raises or the process is interrupted between two steps; the
\* object in memory is dropped with the call
SaveFails ==
  /\ save_pc \in {"rotated", "backed_up", "writing"}
  /\ save_pc' = "idle"
  /\ mem' = [audit_trail |-> << >>]
  /\ UNCHANGED <<active, archive, backups, second, next_entry, appends,
                 persisted, backups_made>>

StoreNext ==
  \/ Tick /\ UNCHANGED <<toolVars, graphVars, batchVars, driverVars, tableVars, condVars>>
  \/ CreateLoanFile /\ UNCHANGED <<toolVars, graphVars, batchVars, driverVars, tableVars, condVars>>
  \/ LoadLoanFile /\ UNCHANGED <<toolVars, graphVars, batchVars, driverVars, tableVars, condVars>>
  \/ AppendAuditEntry /\ UNCHANGED <<toolVars, graphVars, batchVars, driverVars, tableVars, condVars>>
  \/ SaveRotate /\ UNCHANGED <<toolVars, graphVars, batchVars, driverVars, tableVars, condVars>>
  \/ SaveBackup /\ UNCHANGED <<toolVars, graphVars, batchVars, driverVars, tableVars, condVars>>
  \/ SaveOpen /\ UNCHANGED <<toolVars, graphVars, batchVars, driverVars, tableVars, condVars>>
  \/ SaveDump /\ UNCHANGED <<toolVars, graphVars, batchVars, driverVars, tableVars, condVars>>
  \/ SaveFails /\ UNCHANGED <<toolVars, graphVars, batchVars, driverVars, tableVars, condVars>>

StoreSpec == StoreInit /\ [][StoreNext]_vars


\* number of entries a trail of n entries loses in a rotation
Overflow(n) == IF n > MAX_AUDIT_ENTRIES THEN n - MAX_AUDIT_ENTRIES ELSE 0

\* C13 (audit cap): the rotation of a save cuts exactly the oldest entries
\* beyond MAX_AUDIT_ENTRIES off the trail and keeps the newest ones in their
\* order, and the trail a successful save stores is that retained trail, of
\* at most MAX_AUDIT_ENTRIES entries.
C13_AuditCap ==
  [][ /\ (save_pc = "loaded" /\ save_pc' = "rotated") =>
           LET n == Len(mem.audit_trail)
               k == Overflow(n)
           IN  /\ mem'.audit_trail = SubSeq(mem.audit_trail, k + 1, n)
               /\ archive' = archive \o SubSeq(mem.audit_trail, 1, k)
      /\ (save_pc = "writing" /\ save_pc' = "idle" /\ active'.state = "complete") =>
           /\ active'.audit_trail = mem.audit_trail
           /\ Len(active'.audit_trail) <= MAX_AUDIT_ENTRIES ]_vars

\* a save of a trail that had outgrown the cap has completed
C13_Witness ==
  /\ save_pc = "idle"
  /\ active.state = "complete"
  /\ appends > 0
  /\ Len(active.audit_trail) = MAX_AUDIT_ENTRIES
  /\ active.audit_trail[MAX_AUDIT_ENTRIES] = next_entry - 1
  /\ Len(archive) > 0
  /\ archive[Len(archive)] + 1 = active.audit_trail[1]


\* the entries on disk, oldest first: the archive followed by the live trail
Stored == archive \o active.audit_trail

InAppendOrder(seq) == \A i, j \in DOMAIN seq : i < j => seq[i] < seq[j]

\* C14 (audit conservation): after every completed save, whatever saves came
\* before it (failed ones included), the archive followed by the live trail
\* holds every entry that was ever stored, exactly once and in append order,
\* and the archive is only ever extended.
C14_AuditConservation ==
  [][ /\ (save_pc = "writing" /\ save_pc' = "idle" /\ active'.state = "complete") =>
           /\ InAppendOrder(Stored')
           /\ persisted' \subseteq Range(Stored')
      /\ (Len(archive') >= Len(archive) /\ SubSeq(archive', 1, Len(archive)) = archive) ]_vars


\* C17 (backup before overwrite): every save over an existing active file
\* adds one new backup file that holds the contents about to be overwritten,
\* so the backup directory holds as many files as there were such saves.
C17_BackupPerSave ==
  [][ (save_pc = "rotated" /\ save_pc' = "backed_up" /\ active.state # "absent") =>
        /\ \E t \in DOMAIN backups' \ DOMAIN backups : backups'[t] = active
        /\ \A t \in DOMAIN backups : backups'[t] = backups[t]
        /\ Cardinality(DOMAIN backups') = backups_made' ]_vars


\* C18 (atomic save): no save, whether it completes, fails or is interrupted,
\* leaves a partially written active file behind: once the call is over, the
\* active file is either a complete record or not there at all.
C18_AtomicSave == save_pc = "idle" => active.state \in {"absent", "complete"}


(***************************************************************************)
(* Status changes and their audit entries                                  *)
(***************************************************************************)
\* the status_change entries of a record, in list order
StatusChanges(lf) ==
  SelectSeq(lf.audit_trail, LAMBDA e : e.action = "status_change")

\* within one stored record the status_change entries chain and end in the
\* record's status
Chained(lf) ==
  LET sc == StatusChanges(lf)
  IN  /\ \A i \in 1..(Len(sc) - 1) : sc[i + 1].status_before = sc[i].status_after
      /\ Len(sc) > 0 => lf.status = sc[Len(sc)].status_after

StoredRecordsChained == \A l \in Loans : file[l] # NoFile => Chained(file[l])

Transitions(lf) ==
  [i \in DOMAIN StatusChanges(lf) |->
     <<StatusChanges(lf)[i].status_before, StatusChanges(lf)[i].status_after>>]

C16_AuditMonotonic ==
  \A l \in Loans :
    file[l] # NoFile =>
      \A i, j \in DOMAIN file[l].audit_trail :
        i < j => file[l].audit_trail[i].timestamp <= file[l].audit_trail[j].timestamp

\* a stored trail with entries of two calls, stamped at different times
C16_Witness ==
  \E l \in Loans :
    /\ file[l] # NoFile
    /\ \E i, j \in DOMAIN file[l].audit_trail :
         /\ i < j
         /\ file[l].audit_trail[i].timestamp < file[l].audit_trail[j].timestamp
         /\ file[l].audit_trail[i].by \in Tasks
         /\ file[l].audit_trail[j].by \in Tasks
         /\ file[l].audit_trail[i].by # file[l].audit_trail[j].by


(***************************************************************************)
(* The write counter                                                       *)
(***************************************************************************)
\* get_write_count of the shared instance file_manager.file_manager
get_write_count(l) == write_counts[UW_MANAGER][l]

\* the save_loan_file calls made for loan l, whichever instance served them
SavesOf(l) == write_counts[LP_MANAGER][l] + write_counts[UW_MANAGER][l]

\* C19 (write counter): the write count the shared store reports for a loan
\* is the number of saves of that loan made so far by any module: 0 before
\* the first save and one more after each save.
C19_WriteCounter == \A l \in Loans : get_write_count(l) = SavesOf(l)


(***************************************************************************)
(* Abandoned calls                                                         *)
(***************************************************************************)
MaxAbandonTasks == 2

\* A call that is past its first locked section and has not entered its
\* last one stops for good: the external system never answers, or the task
\* is cancelled while it waits for the lock of its next section.
Abandon(t) ==
  /\ \/ pc[t] \in {"call", "acquire3", "acquireH"}
     \/ pc[t] = "acquire1" /\ attempt[t] > 1
  /\ pc' = [pc EXCEPT ![t] = "abandoned"]
  /\ UNCHANGED <<file, locks, lock_table, write_counts, op, loan, loan_file,
                 response, attempt, result, added, during_call, missed>>

AbandonNext ==
  \/ \E t \in 1..MaxAbandonTasks, o \in Ops, l \in Loans :
       Start(t, o, l) /\ UNCHANGED <<graphVars, batchVars, driverVars, storeVars, tableVars, condVars>>
  \/ \E t \in Tasks :
       acquire_loan_lock(t) /\ UNCHANGED <<graphVars, batchVars, driverVars, storeVars, tableVars, condVars>>
  \/ \E t \in Tasks :
       Block1(t) /\ UNCHANGED <<graphVars, batchVars, driverVars, storeVars, tableVars, condVars>>
  \/ \E t \in Tasks :
       ExternalCall(t) /\ UNCHANGED <<graphVars, batchVars, driverVars, storeVars, tableVars, condVars>>
  \/ \E t \in Tasks :
       Block3(t) /\ UNCHANGED <<graphVars, batchVars, driverVars, storeVars, tableVars, condVars>>
  \/ \E t \in Tasks :
       BlockH(t) /\ UNCHANGED <<graphVars, batchVars, driverVars, storeVars, tableVars, condVars>>
  \/ \E t \in Tasks :
       Abandon(t) /\ UNCHANGED <<graphVars, batchVars, driverVars, storeVars, tableVars, condVars>>

AbandonSpec == Init /\ [][AbandonNext]_vars

C20_TwoPhase ==
  \A t \in Tasks :
    (pc[t] = "abandoned" /\ op[t] \in TwoPhaseOps) => (added[t] = {} /\ ~HoldsLock(t))


(***************************************************************************)
(* Terminal statuses                                                       *)
(***************************************************************************)
TerminalStatuses == {CLEAR_TO_CLOSE, "denied", "withdrawn"}

\* C21: once the stored status of a loan is clear_to_close, denied or
\* withdrawn, no step changes it; and a step that changes a stored status is
\* taken by a call that holds the loan's lock inside a guarded block.
C21_TerminalAbsorbing ==
  [][ \A l \in Loans :
        (file[l] # NoFile /\ file'[l] # NoFile /\ file'[l].status # file[l].status) =>
          /\ file[l].status \notin TerminalStatuses
          /\ \E t \in Tasks : InBlock(t) /\ HoldsLock(t) /\ loan[t] = l /\ pc'[t] # pc[t] ]_vars


(***************************************************************************)
(* A batch on one asyncio event loop                                       *)
(*                                                                         *)
(* asyncio.gather runs the coroutines of the batch on the loop of          *)
(* asyncio.run.  A coroutine keeps the loop until it returns or suspends;  *)
(* a tool function suspends only in `async with acquire_loan_lock` when    *)
(* the lock is taken, since the simulators wait with time.sleep.           *)
(***************************************************************************)
\* the coroutine waits in asyncio.Lock.acquire
Suspended(u) ==
  /\ pc[u] \in {"acquire1", "acquire3", "acquireH"}
  /\ locks[file_manager(op[u])][loan[u]] # NoTask

\* the event loop can run (or go on running) the coroutine of task t
CanRun(t) ==
  \A u \in Tasks \ {t} : pc[u] = "idle" \/ Done(u) \/ Suspended(u)

LoopNext ==
  \/ \E t \in DOMAIN ScenarioBatch :
       /\ CanRun(t) /\ ScenarioStart(t)
       /\ UNCHANGED <<graphVars, batchVars, driverVars, storeVars, tableVars, condVars>>
  \/ \E t \in Tasks :
       /\ CanRun(t) /\ acquire_loan_lock(t)
       /\ UNCHANGED <<graphVars, batchVars, driverVars, storeVars, tableVars, condVars>>
  \/ \E t \in Tasks :
       /\ CanRun(t) /\ Block1(t)
       /\ UNCHANGED <<graphVars, batchVars, driverVars, storeVars, tableVars, condVars>>
  \/ \E t \in Tasks :
       /\ CanRun(t) /\ ExternalCall(t)
       /\ UNCHANGED <<graphVars, batchVars, driverVars, storeVars, tableVars, condVars>>
  \/ \E t \in Tasks :
       /\ CanRun(t) /\ Block3(t)
       /\ UNCHANGED <<graphVars, batchVars, driverVars, storeVars, tableVars, condVars>>
  \/ \E t \in Tasks :
       /\ CanRun(t) /\ BlockH(t)
       /\ UNCHANGED <<graphVars, batchVars, driverVars, storeVars, tableVars, condVars>>

\* the loop keeps running coroutines while one can run
LoopSpec == ScenarioInit /\ [][LoopNext]_vars /\ WF_vars(LoopNext)

\* two tasks are in their unlocked external-call phase at the same time
CallsOverlap ==
  \E t, u \in Tasks :
    /\ t # u
    /\ pc[t] = "call" /\ op[t] \in ExternalOps
    /\ pc[u] = "call" /\ op[u] \in ExternalOps

\* on one event loop no two external-call phases ever overlap
CallsNeverOverlap == ~CallsOverlap

\* C22 (parallelism of the unlocked phase): a concurrent batch of tasks with
\* external calls comes to a point where two of its tasks are in their
\* external-call phase at the same time.
C22_CallsOverlap == <>CallsOverlap


(***************************************************************************)
(* Submission to underwriting                                              *)
(***************************************************************************)
\* what the submission requires of the record it loaded
ReadyToSubmit(lf) ==
  /\ \A i \in DOMAIN submit_required_doc_types :
       ~IsMissing(lf, submit_required_doc_types[i])
  /\ lf.ltv_ratio
  /\ lf.dti_ratio
  /\ lf.credit_report

\* task t leaves the block of submit_to_underwriting in this step
SubmitActs(t) ==
  /\ op[t] = "submit_to_underwriting"
  /\ pc[t] = "block1"
  /\ pc'[t] # "block1"
  /\ loan_file[t] # NoFile

\* C23 (submission guard): submit_to_underwriting stores the status
\* submitted_to_underwriting, with the audit entry of that change, exactly
\* when the record it loaded has a document of every required type, LTV, DTI
\* and the credit report; otherwise it leaves the stored record unchanged.
C23_SubmissionGuard ==
  [][ \A t \in Tasks :
        SubmitActs(t) =>
          IF ReadyToSubmit(loan_file[t])
          THEN /\ file'[loan[t]].status = SUBMITTED_TO_UNDERWRITING
               /\ \E i \in DOMAIN file'[loan[t]].audit_trail :
                    /\ file'[loan[t]].audit_trail[i].by = t
                    /\ file'[loan[t]].audit_trail[i].status_after =
                         SUBMITTED_TO_UNDERWRITING
          ELSE file'[loan[t]] = file[loan[t]] ]_vars


\* verify_loan_documents has run on the new loan and its save is the only
\* one so far
VerifiedFreshLoan ==
  /\ now = 1
  /\ \E t \in Tasks :
       /\ op[t] = "verify_loan_documents"
       /\ loan[t] = LN_A
       /\ pc[t] = "returned"
       /\ added[t] # {}

\* C24: one verify_loan_documents call on a freshly created loan leaves the
\* stored status documents_complete and a document of each required type.
C24_FreshLoanVerified ==
  VerifiedFreshLoan =>
    /\ file[LN_A].status = DOCUMENTS_COMPLETE
    /\ \A i \in DOMAIN verify_required_docs :
         ~IsMissing(file[LN_A], verify_required_docs[i])


(***************************************************************************)
(* Document identifiers                                                    *)
(*                                                                         *)
(* Every tool names a new document f"DOC-{uuid.uuid4().hex[:8].upper()}":  *)
(* a random uuid, of which the first digits are kept.  The digits, their   *)
(* number and the number kept are scaled down here.                        *)
(***************************************************************************)
HexBase == 2

UuidDigits == 2

IdDigits == 1

MaxDocuments == 3

\* uuid.uuid4().hex: any string of UuidDigits digits
uuid4_hex == [1..UuidDigits -> 0..(HexBase - 1)]

\* f"DOC-{hex[:8].upper()}"
document_id(hex) == <<"DOC", SubSeq(hex, 1, IdDigits)>>

\* the tools that add one document when their external call succeeds
DocumentOps ==
  {"order_credit_report", "order_appraisal", "order_flood_certification",
   "verify_employment"}

\* the record a complete, successful call of tool o stores, the uuid drawn
\* for its document being hex
WithDocument(o, lf, hex) ==
  LET out == FinalBlock(o, lf, NoTask, Response("ok", << >>)).lf
      n == Len(out.documents)
  IN [out EXCEPT !.documents[n].document_id = document_id(hex)]

\* one call of a document-adding tool, from its first lock to its return
CallAddsDocument(o, hex) ==
  /\ Len(file[LN_A].documents) < MaxDocuments
  /\ file' = [file EXCEPT ![LN_A] =
                _rotate_audit_trail(WithDocument(o, file[LN_A], hex))]
  /\ write_counts' = [write_counts EXCEPT ![file_manager(o)][LN_A] = @ + 1]
  /\ lock_table' = _get_lock(file_manager(o), LN_A)
  /\ UNCHANGED <<locks, op, loan, pc, loan_file, response, attempt, result,
                 added, during_call, missed>>

IdNext ==
  \E o \in DocumentOps, hex \in uuid4_hex :
    CallAddsDocument(o, hex) /\ UNCHANGED <<graphVars, batchVars, driverVars, storeVars, tableVars, condVars>>

IdSpec == ScenarioInit /\ [][IdNext]_vars

\* C25 (unique identifiers): in every stored record no two documents share a
\* document_id.
C25_UniqueDocumentIds ==
  \A l \in Loans :
    file[l] # NoFile =>
      \A i, j \in DOMAIN file[l].documents :
        i # j => file[l].documents[i].document_id # file[l].documents[j].document_id


(***************************************************************************)
(* The lock table: _get_lock called by several threads on one store        *)
(***************************************************************************)
\* entering `with self._lock_manager` without waiting for it to be free
_lock_manager_acquire_unguarded(c) == _lock_manager' = c

\* `with self._lock_manager`: threading.Lock.acquire
_lock_manager_acquire(c) ==
  /\ _lock_manager = NoThread
  /\ _lock_manager' = c

\* thread c calls _get_lock(l)
CallGetLock(c, l) ==
  /\ get_pc[c] = "idle"
  /\ get_pc' = [get_pc EXCEPT ![c] = "with"]
  /\ get_loan' = [get_loan EXCEPT ![c] = l]
  /\ raced' = IF /\ _locks[l] = NoLock
                 /\ \E d \in Threads \ {c} : get_pc[d] # "idle" /\ get_loan[d] = l
              THEN raced \cup {l} ELSE raced
  /\ UNCHANGED <<_locks, _lock_manager, got, next_lock, handed>>

\* line 48: with self._lock_manager
EnterLockManager(c) ==
  /\ get_pc[c] = "with"
  /\ _lock_manager_acquire(c)
  /\ get_pc' = [get_pc EXCEPT ![c] = "check"]
  /\ UNCHANGED <<_locks, get_loan, got, next_lock, handed, raced>>

\* line 49: if loan_number not in self._locks
CheckLocks(c) ==
  /\ get_pc[c] = "check"
  /\ get_pc' = [get_pc EXCEPT ![c] =
                  IF _locks[get_loan[c]] = NoLock THEN "create" ELSE "return"]
  /\ UNCHANGED <<_locks, _lock_manager, get_loan, got, next_lock, handed, raced>>

\* line 50: self._locks[loan_number] = asyncio.Lock()
CreateLock(c) ==
  /\ get_pc[c] = "create"
  /\ next_lock <= MaxLocksMade
  /\ _locks' = [_locks EXCEPT ![get_loan[c]] = next_lock]
  /\ next_lock' = next_lock + 1
  /\ get_pc' = [get_pc EXCEPT ![c] = "return"]
  /\ UNCHANGED <<_lock_manager, get_loan, got, handed, raced>>

\* line 51: return self._locks[loan_number], leaving the `with`
ReturnLock(c) ==
  /\ get_pc[c] = "return"
  /\ got' = [got EXCEPT ![c][get_loan[c]] = _locks[get_loan[c]]]
  /\ handed' = [handed EXCEPT ![get_loan[c]] = @ \cup {_locks[get_loan[c]]}]
  /\ _lock_manager' = NoThread
  /\ get_pc' = [get_pc EXCEPT ![c] = "idle"]
  /\ UNCHANGED <<_locks, get_loan, next_lock, raced>>

TableInit ==
  ToolsIdle /\ GraphIdle /\ BatchIdle /\ DriverIdle /\ StoreIdle /\ TableIdle /\ CondIdle

TableNext ==
  \/ \E c \in Threads, l \in Loans :
       CallGetLock(c, l)
       /\ UNCHANGED <<toolVars, graphVars, batchVars, driverVars, storeVars, condVars>>
  \/ \E c \in Threads :
       EnterLockManager(c)
       /\ UNCHANGED <<toolVars, graphVars, batchVars, driverVars, storeVars, condVars>>
  \/ \E c \in Threads :
       CheckLocks(c)
       /\ UNCHANGED <<toolVars, graphVars, batchVars, driverVars, storeVars, condVars>>
  \/ \E c \in Threads :
       CreateLock(c)
       /\ UNCHANGED <<toolVars, graphVars, batchVars, driverVars, storeVars, condVars>>
  \/ \E c \in Threads :
       ReturnLock(c)
       /\ UNCHANGED <<toolVars, graphVars, batchVars, driverVars, storeVars, condVars>>

TableSpec == TableInit /\ [][TableNext]_vars

LocksMade == next_lock - 1

\* C26 (race-free lock table): every call of _get_lock for a loan number
\* returns the same lock object; one lock object is made per loan number
\* seen, also when two threads ask for a new loan number at the same time;
\* and a lock in the table is never replaced or removed.
C26_RaceFreeLockTable ==
  /\ [](\A l \in Loans :
          /\ Cardinality(handed[l]) <= 1
          /\ handed[l] \subseteq {_locks[l]})
  /\ [](LocksMade = Cardinality({l \in Loans : _locks[l] # NoLock}))
  /\ [][\A l \in Loans : _locks[l] # NoLock => _locks'[l] = _locks[l]]_vars

\* two threads asked for the lock of a new loan number at the same time and
\* both have received it
C26_Witness ==
  \E l \in Loans :
    /\ l \in raced
    /\ \A c \in Threads : got[c][l] # NoLock /\ got[c][l] = _locks[l]
    /\ \A c \in Threads : get_pc[c] = "idle"


(***************************************************************************)
(* The conditions loop: issue_underwriting_conditions,                     *)
(* clear_underwriting_conditions and issue_final_approval on one store     *)
(***************************************************************************)
UNDERWRITING_SUSPENDED == "underwriting_suspended"

ValueError == "ValueError"

\* condition descriptions none of which is contained in another
VOE_REQUIRED == "VOE required for Tech Corp"

LOE_REQUIRED == "LOE for credit inquiries"

\* the values of the List[str] argument
DescriptionLists ==
  {<< >>, <<VOE_REQUIRED>>, <<LOE_REQUIRED>>, <<VOE_REQUIRED, LOE_REQUIRED>>}

ConditionOps ==
  {"issue_underwriting_conditions", "clear_underwriting_conditions",
   "issue_final_approval"}

\* UnderwritingCondition(condition_id=..., description=..., status="pending")
UnderwritingCondition(by, n, description, status) ==
  [condition_id |-> <<by, n>>, description |-> description, status |-> status]

Uncleared(lf) ==
  SelectSeq(lf.current_conditions, LAMBDA c : c.status # "cleared")

\* description.lower() in condition.description.lower() or the converse
Matches(description, condition) == description = condition.description

\* issue_underwriting_conditions: the first round of the loop appends the
\* condition to the loaded record and then reads .value of
\* condition.condition_type, a str under use_enum_values
issue_underwriting_conditions(lf, t, conditions) ==
  IF conditions # << >>
  THEN Outcome("exception", AttributeError,
               [lf EXCEPT !.current_conditions =
                  Append(@, UnderwritingCondition(t, 1, conditions[1],
                                                  "pending"))],
               FALSE)
  ELSE Outcome("normal", "ok",
               update_status(
                 [lf EXCEPT !.underwriting_decisions =
                    Append(@, UnderwritingDecision(t, "approve_with_conditions"))],
                 t, UNDERWRITING_SUSPENDED),
               TRUE)

\* clear_underwriting_conditions: the first match sets status and
\* cleared_date and then assigns cleared_by, which UnderwritingCondition
\* does not declare; with nothing left to clear the status update names
\* LoanStatus.UNDERWRITING_IN_PROGRESS, which LoanStatus does not have
clear_underwriting_conditions(lf, t, cleared_conditions) ==
  IF lf.current_conditions = << >>
  THEN Outcome("return", "no_conditions", lf, FALSE)
  ELSE IF \E i \in DOMAIN cleared_conditions, j \in DOMAIN lf.current_conditions :
            /\ lf.current_conditions[j].status # "cleared"
            /\ Matches(cleared_conditions[i], lf.current_conditions[j])
  THEN Outcome("exception", ValueError, lf, FALSE)
  ELSE IF Uncleared(lf) = << >>
  THEN Outcome("exception", AttributeError, lf, FALSE)
  ELSE Outcome("normal", "ok", lf, TRUE)

ConditionsFinalBlock(o, lf, t, list) ==
  CASE o = "issue_underwriting_conditions" ->
         issue_underwriting_conditions(lf, t, list)
    [] o = "clear_underwriting_conditions" ->
         clear_underwriting_conditions(lf, t, list)
    [] o = "issue_final_approval" -> issue_final_approval(lf, t)

\* records of a store on which conditions are on file
StoredConditionLists ==
  {<<UnderwritingCondition(NoTask, 1, VOE_REQUIRED, s)>> :
     s \in {"pending", "cleared"}}
  \cup {<<UnderwritingCondition(NoTask, 1, VOE_REQUIRED, s1),
          UnderwritingCondition(NoTask, 2, LOE_REQUIRED, s2)>> :
          s1 \in {"pending", "cleared"}, s2 \in {"pending", "cleared"}}

SuspendedLoanFiles ==
  {[NewLoanFile EXCEPT !.status = UNDERWRITING_SUSPENDED,
                       !.current_conditions = cs] :
     cs \in StoredConditionLists}

ConditionsInit ==
  /\ write_counts = [m \in Managers |-> [l \in Loans |-> 0]]
  /\ file \in {[l \in Loans |-> IF l = LN_A THEN f ELSE NoFile] :
                 f \in {NewLoanFile} \cup SuspendedLoanFiles}
  /\ locks = [m \in Managers |-> [l \in Loans |-> NoTask]]
  /\ lock_table = [m \in Managers |-> {}]
  /\ op = [t \in Tasks |-> "none"]
  /\ loan = [t \in Tasks |-> LN_A]
  /\ pc = [t \in Tasks |-> "idle"]
  /\ loan_file = [t \in Tasks |-> NoFile]
  /\ response = [t \in Tasks |-> NoResponse]
  /\ attempt = [t \in Tasks |-> 1]
  /\ result = [t \in Tasks |-> "none"]
  /\ added = [t \in Tasks |-> {}]
  /\ during_call = [t \in Tasks |-> {}]
  /\ missed = [t \in Tasks |-> {}]
  /\ GraphIdle /\ BatchIdle /\ DriverIdle /\ StoreIdle /\ TableIdle /\ CondIdle

\* a caller invokes a conditions tool on loan l with list argument a
ConditionsStart(t, o, l, a) ==
  /\ pc[t] = "idle"
  /\ \A u \in Callers : u < t => pc[u] # "idle"
  /\ o = "issue_final_approval" => a = << >>
  /\ op' = [op EXCEPT ![t] = o]
  /\ loan' = [loan EXCEPT ![t] = l]
  /\ pc' = [pc EXCEPT ![t] = "acquire1"]
  /\ descriptions' = [descriptions EXCEPT ![t] = a]
  /\ UNCHANGED <<file, locks, lock_table, write_counts, loan_file, response,
                 attempt, result, added, during_call, missed>>

\* the single block of a conditions tool, to the end of the `async with`
ConditionsBlock(t) ==
  LET m == file_manager(op[t])
      l == loan[t]
      out == ConditionsFinalBlock(op[t], loan_file[t], t, descriptions[t])
  IN /\ pc[t] = "block1"
     /\ op[t] \in ConditionOps
     /\ UNCHANGED <<lock_table, op, loan, attempt>>
     /\ descriptions' = [descriptions EXCEPT ![t] = << >>]
     /\ IF loan_file[t] = NoFile
        THEN /\ locks' = acquire_loan_lock_exit(m, l, "return")
             /\ NoSave
             /\ Finish(t, "return", "not_found")
        ELSE /\ locks' = acquire_loan_lock_exit(m, l, out.how)
             /\ IF out.save THEN save_loan_file(t, out.lf) ELSE NoSave
             /\ Finish(t, out.how, out.result)

ConditionsNext ==
  \/ \E t \in Callers, o \in ConditionOps, l \in Loans, a \in DescriptionLists :
       ConditionsStart(t, o, l, a)
       /\ UNCHANGED <<graphVars, batchVars, driverVars, storeVars, tableVars>>
  \/ \E t \in Callers :
       acquire_loan_lock(t)
       /\ UNCHANGED <<graphVars, batchVars, driverVars, storeVars, tableVars, condVars>>
  \/ \E t \in Callers :
       ConditionsBlock(t)
       /\ UNCHANGED <<graphVars, batchVars, driverVars, storeVars, tableVars>>

ConditionsSpec == ConditionsInit /\ [][ConditionsNext]_vars

AllCleared(lf) == \A i \in DOMAIN lf.current_conditions :
                    lf.current_conditions[i].status = "cleared"

\* the call of task t names every condition of its loaded record that is
\* not yet cleared, and there is one
ClearsLast(t) ==
  /\ op[t] = "clear_underwriting_conditions"
  /\ pc[t] = "block1"
  /\ loan_file[t] # NoFile
  /\ Uncleared(loan_file[t]) # << >>
  /\ \A j \in DOMAIN loan_file[t].current_conditions :
       loan_file[t].current_conditions[j].status # "cleared"
         => \E i \in DOMAIN descriptions[t] :
              Matches(descriptions[t][i], loan_file[t].current_conditions[j])

\* C27 (conditions loop makes progress): on a loan with conditions on file,
\* a clear_underwriting_conditions call that clears the last uncleared
\* condition ends normally, stores the record with every condition cleared
\* and a new status, and issue_final_approval on the stored record brings
\* the loan to clear_to_close.
C27_ConditionsLoopProgress ==
  [][\A t \in Callers :
       ClearsLast(t) /\ pc'[t] # "block1"
         => /\ pc'[t] = "returned"
            /\ AllCleared(file'[loan[t]])
            /\ file'[loan[t]].status # loan_file[t].status
            /\ issue_final_approval(file'[loan[t]], t).lf.status = CLEAR_TO_CLOSE]_vars


\* an issue_final_approval call whose loaded record has a condition that is
\* not cleared
ApprovalOnUncleared(t) ==
  /\ op[t] = "issue_final_approval"
  /\ pc[t] = "block1"
  /\ loan_file[t] # NoFile
  /\ Uncleared(loan_file[t]) # << >>

\* C28 (approval guard): a stored record with status clear_to_close has
\* every entry of current_conditions cleared; an issue_final_approval call
\* that finds a condition not cleared returns a refusal and leaves the
\* store unchanged, whatever issue_underwriting_conditions and
\* clear_underwriting_conditions calls run beside it.
C28_ApprovalGuard ==
  /\ [](\A l \in Loans :
          file[l] # NoFile /\ file[l].status = CLEAR_TO_CLOSE
            => AllCleared(file[l]))
  /\ [][\A t \in Callers :
          ApprovalOnUncleared(t) /\ pc'[t] # "block1"
            => /\ pc'[t] = "returned"
               /\ result'[t] = "refused"
               /\ file' = file]_vars

\* an issue_final_approval call was refused on a loan that still has an
\* uncleared condition, after calls of both other tools on that loan ended
C28_Witness ==
  \E t, u, v \in Callers :
    /\ op[t] = "issue_final_approval" /\ result[t] = "refused"
    /\ op[u] = "issue_underwriting_conditions" /\ Done(u) /\ loan[u] = loan[t]
    /\ op[v] = "clear_underwriting_conditions" /\ Done(v) /\ loan[v] = loan[t]
    /\ Uncleared(file[loan[t]]) # << >>


(***************************************************************************)
(* Termination of the tool calls                                           *)
(***************************************************************************)
\* a step of a call that has started: the event loop resumes every task
\* that can run, and each external call returns or raises
Steps ==
  /\ \E t \in Tasks :
       \/ acquire_loan_lock(t)
       \/ Block1(t)
       \/ ExternalCall(t)
       \/ Block3(t)
       \/ BlockH(t)
  /\ UNCHANGED <<graphVars, batchVars, driverVars, storeVars, tableVars, condVars>>

MaxFairTasks == 2

\* Next with at most MaxFairTasks calls
FairNext ==
  \/ \E t \in 1..MaxFairTasks, o \in Ops, l \in Loans :
       Start(t, o, l)
       /\ UNCHANGED <<graphVars, batchVars, driverVars, storeVars, tableVars, condVars>>
  \/ \E t \in Tasks :
       acquire_loan_lock(t)
       /\ UNCHANGED <<graphVars, batchVars, driverVars, storeVars, tableVars, condVars>>
  \/ \E t \in Tasks :
       Block1(t)
       /\ UNCHANGED <<graphVars, batchVars, driverVars, storeVars, tableVars, condVars>>
  \/ \E t \in Tasks :
       ExternalCall(t)
       /\ UNCHANGED <<graphVars, batchVars, driverVars, storeVars, tableVars, condVars>>
  \/ \E t \in Tasks :
       Block3(t)
       /\ UNCHANGED <<graphVars, batchVars, driverVars, storeVars, tableVars, condVars>>
  \/ \E t \in Tasks :
       BlockH(t)
       /\ UNCHANGED <<graphVars, batchVars, driverVars, storeVars, tableVars, condVars>>

FairSpec == Init /\ [][FairNext]_vars /\ WF_vars(Steps)

AtAcquire(t) == pc[t] \in {"acquire1", "acquire3", "acquireH"}

HeldBy(t) == {<<m, l>> \in Managers \X Loans : locks[m][l] = t}

\* C29 (deadlock freedom): a call that is about to acquire a per-loan lock,
\* in its body or in an exception handler, holds no lock; and every call
\* that has started finishes.
C29_DeadlockFreedom ==
  /\ [](\A t \in Tasks : AtAcquire(t) => HeldBy(t) = {})
  /\ \A t \in Tasks : (pc[t] # "idle") ~> Done(t)

\* a call waits in its exception handler for the lock that another call on
\* the same loan holds
C29_Witness ==
  \E t, u \in Tasks :
    /\ pc[t] = "acquireH"
    /\ u # t /\ locks[file_manager(op[t])][loan[t]] = u


(***************************************************************************)
(* The driver loop over a task graph: ask get_concurrent_tasks for the     *)
(* ready tasks, run them as one batch, mark the successful ones completed  *)
(***************************************************************************)
KeysOf(graph) == {graph[i].key : i \in DOMAIN graph}

\* every declared dependency names a task of the same graph
DependenciesDeclared(graph) ==
  \A i \in DOMAIN graph : graph[i].task.dependencies \subseteq KeysOf(graph)

\* the tasks that k rounds of "all dependencies inside the graph are done"
\* can reach from `done`
RECURSIVE Reachable(_, _, _)
Reachable(graph, done, k) ==
  IF k = 0 THEN done
  ELSE Reachable(graph,
                 done \cup {graph[i].key : i \in
                              {j \in DOMAIN graph :
                                 (graph[j].task.dependencies \cap KeysOf(graph))
                                   \subseteq done}},
                 k - 1)

\* no task depends on itself through a chain of dependencies
Acyclic(graph) == Reachable(graph, {}, Len(graph)) = KeysOf(graph)

LoopInit ==
  /\ \/ \E tasks \in GeneratedGraphs :
          all_tasks = [i \in DOMAIN tasks |-> Item(tasks[i])]
     \/ all_tasks \in {LOAN_PROCESSOR_TASKS, UNDERWRITER_TASKS}
  /\ completed_tasks = {}
  /\ available = << >>
  /\ called = FALSE
  /\ ToolsIdle /\ BatchIdle /\ DriverIdle /\ StoreIdle /\ TableIdle /\ CondIdle

\* execute_concurrent_tasks(available, loan_number) with every tool
\* succeeding: the names of its result mapping are marked completed
MarkCompleted ==
  /\ called
  /\ available # << >>
  /\ completed_tasks' =
       completed_tasks \cup {available[i].name : i \in DOMAIN available}
  /\ available' = << >>
  /\ called' = FALSE
  /\ UNCHANGED all_tasks

DriverLoopNext ==
  \/ GetConcurrentTasks
     /\ UNCHANGED <<toolVars, batchVars, driverVars, storeVars, tableVars, condVars>>
  \/ MarkCompleted
     /\ UNCHANGED <<toolVars, batchVars, driverVars, storeVars, tableVars, condVars>>

DriverLoopSpec == LoopInit /\ [][DriverLoopNext]_vars /\ WF_vars(DriverLoopNext)

Declared == all_tasks \in {LOAN_PROCESSOR_TASKS, UNDERWRITER_TASKS}

\* C30 (driver progress): in LOAN_PROCESSOR_TASKS and UNDERWRITER_TASKS every
\* dependency names a task of the same graph and the dependencies are
\* acyclic, and the driver loop started with nothing completed eventually
\* has every task of the graph completed.
C30_DriverProgress ==
  /\ [](Declared => DependenciesDeclared(all_tasks) /\ Acyclic(all_tasks))
  /\ Declared ~> (KeysOf(all_tasks) \subseteq completed_tasks)

\* the loop alone: from nothing completed it ends with every task completed
\* on the graphs whose tasks are all concurrent_safe and whose dependencies
\* are declared and acyclic
LoopCompletesSafeGraphs ==
  (/\ DependenciesDeclared(all_tasks)
   /\ Acyclic(all_tasks)
   /\ \A i \in DOMAIN all_tasks : all_tasks[i].task.concurrent_safe)
    ~> (KeysOf(all_tasks) \subseteq completed_tasks)

\* the declared graphs without the other defect
DeclaredGraphsAcyclic == Declared => Acyclic(all_tasks)

UnderwriterDependenciesDeclared ==
  all_tasks = UNDERWRITER_TASKS => DependenciesDeclared(all_tasks)


\* the loop on UNDERWRITER_TASKS, whose dependencies are all declared
UnderwriterLoopCompletes ==
  (all_tasks = UNDERWRITER_TASKS)
    ~> (KeysOf(all_tasks) \subseteq completed_tasks)

====
